---- MODULE Spec2Model ----
(***************************************************************************)
(* ERC-8004 explorer: the subgraph client (src/lib/subgraph.ts), the list  *)
(* page (src/app/page.tsx) and the agent detail page (src/app/layout.tsx). *)
(*                                                                         *)
(* Text is modelled as a sequence of chunks.  A chunk is one character     *)
(* ("a", a double quote, a brace, a newline) or, for the words of the      *)
(* query templates, one whole word ("where", "agents").  A query is the    *)
(* sequence of chunks the template literal produces; the remote service    *)
(* lexes and parses that sequence as GraphQL.                              *)
(***************************************************************************)
EXTENDS Integers, Sequences, FiniteSets, TLC

VARIABLES
    qin,        \* inputs of one call of a function (fetchAgents: first, page,
                \* filters; buildUrl: current, updates; ...)
    qout,       \* what the call gave (<<>> before the call)
    qpc,        \* "input" before the call, "built" after it, "idle"
    route,      \* the page being served: "list", "detail" or "none"
    params,     \* the URL search params of the list page
    pathId,     \* the [id] path segment of the detail page, as in the URL
    store,      \* what the remote service holds (never changes)
    pc,         \* "start", "waiting", "rendered", "notfound", "failed", "idle"
    reqs,       \* per gateway operation: its request, response and outcome
    order,      \* the operations in the order their responses arrived
    view,       \* what the page rendered
    trail,      \* the list pages rendered in a row: page p, then p + 1, ...
    linked      \* the id of the agent card the visitor followed (<<>>: none)

queryVars == <<qin, qout, qpc>>
pageVars == <<route, params, pathId, store, pc, reqs, order, view, trail, linked>>
vars == <<qin, qout, qpc, route, params, pathId, store, pc, reqs, order, view, trail,
          linked>>

(***************************************************************************)
(* Characters                                                              *)
(***************************************************************************)
DQ == "\""
BS == "\\"
NL == "\n"
HASH == "#"

Digits == <<"0", "1", "2", "3", "4", "5", "6", "7", "8", "9">>
DigitSet == {Digits[i] : i \in 1..10}
DigitVal(c) == (CHOOSE i \in 1..10 : Digits[i] = c) - 1

\* The not-a-number value of JavaScript arithmetic.
NaN == -1000000

RECURSIVE NatToString(_)
NatToString(n) ==
    IF n < 10 THEN <<Digits[n + 1]>>
    ELSE NatToString(n \div 10) \o <<Digits[(n % 10) + 1]>>

\* `${n}` / String(n) for an integer or NaN.
NumberToString(n) ==
    IF n = NaN THEN <<"NaN">>
    ELSE IF n < 0 THEN <<"-">> \o NatToString(0 - n)
    ELSE NatToString(n)

(***************************************************************************)
(* fetchAgents: the query builder                                          *)
(***************************************************************************)
SearchCondition(search) ==
    <<"{", "registrationFile_", ":", "{", "name_contains_nocase", ":", DQ>>
    \o search \o <<DQ, "}", "}">>

ReviewsCondition == <<"{", "totalFeedback_gt", ":", "0", "}">>

EndpointCondition ==
    <<"{", "or", ":", "[", NL,
      "{", "registrationFile_", ":", "{", "mcpEndpoint_not", ":", "null", "}", "}", ",", NL,
      "{", "registrationFile_", ":", "{", "a2aEndpoint_not", ":", "null", "}", "}", NL,
      "]", "}">>

\* The conditions array after the three pushes.  A filter that is undefined,
\* false or the empty string pushes nothing.
Conditions(filters) ==
    (IF filters.search # <<>> THEN <<SearchCondition(filters.search)>> ELSE <<>>)
    \o (IF filters.hasReviews THEN <<ReviewsCondition>> ELSE <<>>)
    \o (IF filters.hasEndpoint THEN <<EndpointCondition>> ELSE <<>>)

\* conditions.join(", ")
RECURSIVE Join(_)
Join(conds) ==
    IF Len(conds) = 0 THEN <<>>
    ELSE IF Len(conds) = 1 THEN conds[1]
    ELSE conds[1] \o <<",">> \o Join(Tail(conds))

WhereClause(conds) ==
    IF Len(conds) = 1 THEN <<"where", ":">> \o conds[1]
    ELSE IF Len(conds) > 1
         THEN <<"where", ":", "{", "and", ":", "[">> \o Join(conds) \o <<"]", "}">>
         ELSE <<>>

AgentFields ==
    <<"id", NL, "chainId", NL, "agentId", NL, "owner", NL, "agentURI", NL,
      "createdAt", NL, "updatedAt", NL, "totalFeedback", NL,
      "registrationFile", "{", NL, "name", NL, "description", NL, "image", NL,
      "mcpEndpoint", NL, "a2aEndpoint", NL, "supportedTrusts", NL, "}", NL>>

AgentsQuery(first, skip, filters) ==
    <<NL, "{", NL, "agents", "(", NL,
      "first", ":">> \o NumberToString(first) \o <<NL,
      "skip", ":">> \o NumberToString(skip) \o <<NL,
      "orderBy", ":", "createdAt", NL,
      "orderDirection", ":", "desc", NL>>
    \o WhereClause(Conditions(filters))
    \o <<NL, ")", "{", NL>> \o AgentFields \o <<"}", NL, "}", NL>>

(***************************************************************************)
(* The remote service: GraphQL lexing                                      *)
(*                                                                         *)
(* A lexed token is [t, s]: t is "punct", "name", "int" or "str" and s is  *)
(* the chunks of its text (for "str": the decoded value of the literal).   *)
(***************************************************************************)
Punctuators == {"{", "}", "[", "]", "(", ")", ":"}
Ignored == {NL, ","}
EscapeChars == {DQ, BS, "/", "b", "f", "n", "r", "t"}

Tok(t, s) == [t |-> t, s |-> s]
Punct(c) == Tok("punct", <<c>>)
LexFail == [ok |-> FALSE, out |-> <<>>]

Min(S) == CHOOSE x \in S : \A y \in S : x <= y

\* The character at j is escaped when an odd number of backslashes of the
\* string (which starts at i) stands right before it.
Escaped(toks, i, j) ==
    Cardinality({k \in i..(j - 1) : \A m \in k..(j - 1) : toks[m] = BS}) % 2 = 1

\* Index of the quote closing a string whose content starts at i; 0 when the
\* string is unterminated, holds a line terminator or a bad escape.
StringEnd(toks, i) ==
    LET quotes == {j \in i..Len(toks) : toks[j] = DQ /\ ~Escaped(toks, i, j)}
    IN  IF quotes = {} THEN 0
        ELSE LET e == Min(quotes) IN
             IF \A k \in i..(e - 1) :
                    /\ toks[k] # NL
                    /\ (toks[k] = BS /\ ~Escaped(toks, i, k))
                          => toks[k + 1] \in EscapeChars
             THEN e
             ELSE 0

EscapeValue(c) == IF c = "n" THEN NL ELSE c

\* The value of a string literal: each escape replaced by its character.
Unescape(s) ==
    LET kept == {k \in 1..Len(s) : ~(s[k] = BS /\ ~Escaped(s, 1, k))}
        nth(n) == CHOOSE k \in kept : Cardinality({m \in kept : m < k}) = n - 1
    IN  [n \in 1..Cardinality(kept) |->
            IF Escaped(s, 1, nth(n)) THEN EscapeValue(s[nth(n)]) ELSE s[nth(n)]]

AllDQ(toks, i) ==
    i + 2 <= Len(toks) /\ toks[i] = DQ /\ toks[i + 1] = DQ /\ toks[i + 2] = DQ

\* Index of the three quotes closing a block string; 0 when there are none.
BlockEnd(toks, i) ==
    LET ends == {j \in i..Len(toks) : AllDQ(toks, j)}
    IN  IF ends = {} THEN 0 ELSE Min(ends)

\* A comment runs from # to the end of the line.
CommentEnd(toks, i) ==
    Min({j \in i..Len(toks) : toks[j] = NL} \cup {Len(toks) + 1})

\* Index of the last digit of the number that starts at i.
DigitsEnd(toks, i) ==
    Min({j \in i..Len(toks) : j = Len(toks) \/ toks[j + 1] \notin DigitSet})

\* One step of the lexer at position st.pos: skip ignored text or emit the
\* token that starts there.
LexStep(toks, st) ==
    LET i == st.pos
        c == toks[i]
        fail == [ok |-> FALSE, pos |-> i, out |-> <<>>]
        emit(next, tok) == [ok |-> TRUE, pos |-> next, out |-> Append(st.out, tok)]
    IN  CASE c \in Ignored -> [st EXCEPT !.pos = i + 1]
          [] c = HASH -> [st EXCEPT !.pos = CommentEnd(toks, i)]
          [] AllDQ(toks, i) ->
                LET e == BlockEnd(toks, i + 3) IN
                IF e = 0 THEN fail
                ELSE emit(e + 3, Tok("str", SubSeq(toks, i + 3, e - 1)))
          [] c = DQ /\ ~AllDQ(toks, i) ->
                LET e == StringEnd(toks, i + 1) IN
                IF e = 0 THEN fail
                ELSE emit(e + 1, Tok("str", Unescape(SubSeq(toks, i + 1, e - 1))))
          [] c \in Punctuators -> emit(i + 1, Punct(c))
          [] c \in DigitSet
             \/ (c = "-" /\ i + 1 <= Len(toks) /\ toks[i + 1] \in DigitSet) ->
                LET e == DigitsEnd(toks, IF c = "-" THEN i + 1 ELSE i) IN
                emit(e + 1, Tok("int", SubSeq(toks, i, e)))
          [] c = BS \/ (c = "-" /\ ~(i + 1 <= Len(toks) /\ toks[i + 1] \in DigitSet)) ->
                fail
          [] OTHER -> emit(i + 1, Tok("name", <<c>>))

\* At most n steps of the lexer from st.
RECURSIVE LexSteps(_, _, _)
LexSteps(toks, st, n) ==
    IF ~st.ok \/ st.pos > Len(toks) \/ n = 0 THEN st
    ELSE IF n = 1 THEN LexStep(toks, st)
    ELSE LexSteps(toks, LexSteps(toks, st, n \div 2), n - (n \div 2))

LexResult(st) == IF st.ok THEN [ok |-> TRUE, out |-> st.out] ELSE LexFail

Lex(toks) ==
    LexResult(LexSteps(toks, [ok |-> TRUE, pos |-> 1, out |-> <<>>], Len(toks)))

(***************************************************************************)
(* The remote service: GraphQL values and argument lists                   *)
(*                                                                         *)
(* A node is [k, s, names, kids]: k is "int", "str", "name", "obj" or      *)
(* "list"; an object keeps its field names in names and their values in    *)
(* kids, a list keeps its items in kids.                                   *)
(***************************************************************************)
Scalar(k, s) == [k |-> k, s |-> s, names |-> <<>>, kids |-> <<>>]
Obj(names, kids) == [k |-> "obj", s |-> <<>>, names |-> names, kids |-> kids]
List(kids) == [k |-> "list", s |-> <<>>, names |-> <<>>, kids |-> kids]
ParseFail == [ok |-> FALSE, node |-> Scalar("name", <<>>), rest |-> <<>>]

RECURSIVE ParseValue(_)
RECURSIVE ParseFields(_, _, _, _)
RECURSIVE ParseItems(_, _)
RECURSIVE ParseMoreFields(_, _, _, _)
RECURSIVE ParseMoreItems(_, _)

ParseValue(l) ==
    IF l = <<>> THEN ParseFail
    ELSE LET h == Head(l) IN
         IF h.t \in {"int", "str", "name"}
         THEN [ok |-> TRUE, node |-> Scalar(h.t, h.s), rest |-> Tail(l)]
         ELSE IF h = Punct("{") THEN ParseFields(Tail(l), "}", <<>>, <<>>)
         ELSE IF h = Punct("[") THEN ParseItems(Tail(l), <<>>)
         ELSE ParseFail

\* name: value pairs up to the closing punctuator (an object's brace or an
\* argument list's parenthesis).
ParseFields(l, close, names, kids) ==
    IF l = <<>> THEN ParseFail
    ELSE IF Head(l) = Punct(close)
         THEN [ok |-> TRUE, node |-> Obj(names, kids), rest |-> Tail(l)]
    ELSE IF Head(l).t = "name" /\ Len(l) >= 2 /\ l[2] = Punct(":")
         THEN ParseMoreFields(close, Append(names, Head(l).s[1]), kids,
                              ParseValue(SubSeq(l, 3, Len(l))))
    ELSE ParseFail

\* The value r of a field is read; the fields after it follow.
ParseMoreFields(close, names, kids, r) ==
    IF r.ok THEN ParseFields(r.rest, close, names, Append(kids, r.node))
    ELSE ParseFail

ParseItems(l, kids) ==
    IF l = <<>> THEN ParseFail
    ELSE IF Head(l) = Punct("]")
         THEN [ok |-> TRUE, node |-> List(kids), rest |-> Tail(l)]
    ELSE ParseMoreItems(kids, ParseValue(l))

\* The item r of a list is read; the items after it follow.
ParseMoreItems(kids, r) ==
    IF r.ok THEN ParseItems(r.rest, Append(kids, r.node)) ELSE ParseFail

HasField(node, name) == \E i \in 1..Len(node.names) : node.names[i] = name
Field(node, name) ==
    node.kids[CHOOSE i \in 1..Len(node.names) : node.names[i] = name]
DistinctNames(node) ==
    \A i, j \in 1..Len(node.names) : node.names[i] = node.names[j] => i = j

(***************************************************************************)
(* The remote service: GraphQL documents                                   *)
(*                                                                         *)
(* A selection is [name, args, sel]: the field's name, its argument list   *)
(* (an object node, empty when the field has none) and its sub-selections. *)
(***************************************************************************)
SelFail == [ok |-> FALSE, fields |-> <<>>, rest |-> <<>>]
NoArgs == Obj(<<>>, <<>>)

RECURSIVE ParseSelection(_, _)
RECURSIVE ParseSubSelection(_, _, _, _)
RECURSIVE ParseNextField(_, _, _, _, _)

\* The argument list of a field, when it has one.
ParseArguments(l) ==
    IF l # <<>> /\ Head(l) = Punct("(")
    THEN ParseFields(Tail(l), ")", <<>>, <<>>)
    ELSE [ok |-> TRUE, node |-> NoArgs, rest |-> l]

\* The fields of a selection set whose opening brace is already read.
ParseSelection(l, acc) ==
    IF l = <<>> THEN SelFail
    ELSE IF Head(l) = Punct("}")
         THEN [ok |-> TRUE, fields |-> acc, rest |-> Tail(l)]
    ELSE IF Head(l).t # "name" THEN SelFail
    ELSE ParseSubSelection(l, acc, Head(l).s[1], ParseArguments(Tail(l)))

\* The sub-selection of the field name, whose arguments a are read.
ParseSubSelection(l, acc, name, a) ==
    IF ~a.ok THEN SelFail
    ELSE IF a.rest # <<>> /\ Head(a.rest) = Punct("{")
         THEN ParseNextField(l, acc, name, a, ParseSelection(Tail(a.rest), <<>>))
         ELSE ParseNextField(l, acc, name, a,
                             [ok |-> TRUE, fields |-> <<>>, rest |-> a.rest])

\* The field name is read whole; the fields after it follow.
ParseNextField(l, acc, name, a, s) ==
    IF s.ok
    THEN ParseSelection(s.rest,
                        Append(acc, [name |-> name, args |-> a.node, sel |-> s.fields]))
    ELSE SelFail

WholeDocument(d) == IF d.ok /\ d.rest = <<>> THEN d ELSE SelFail

DocumentOf(lx) ==
    IF ~lx.ok \/ lx.out = <<>> \/ Head(lx.out) # Punct("{") THEN SelFail
    ELSE WholeDocument(ParseSelection(Tail(lx.out), <<>>))

\* A query document: one selection set and nothing after it.
ParseDocument(query) == DocumentOf(Lex(query))

FieldNames(sel) == [i \in 1..Len(sel) |-> sel[i].name]

(***************************************************************************)
(* parseInt                                                                *)
(***************************************************************************)
RECURSIVE DigitsValue(_, _, _)
DigitsValue(s, i, acc) ==
    IF i <= Len(s) /\ s[i] \in DigitSet
    THEN DigitsValue(s, i + 1, acc * 10 + DigitVal(s[i]))
    ELSE acc

\* parseInt(s): an optional sign, then the longest run of digits; what
\* follows the digits is ignored, and no digit at all gives NaN.
ParseInt(s) ==
    LET signed == s # <<>> /\ s[1] \in {"-", "+"}
        start == IF signed THEN 2 ELSE 1
    IN  IF start > Len(s) \/ s[start] \notin DigitSet THEN NaN
        ELSE IF signed /\ s[1] = "-" THEN 0 - DigitsValue(s, start, 0)
        ELSE DigitsValue(s, start, 0)

(***************************************************************************)
(* The remote service: agent filters                                       *)
(*                                                                         *)
(* An agent of the store is [id, createdAt, hasFile, name, totalFeedback,  *)
(* mcp, a2a]: hasFile tells whether the registration file was indexed, mcp *)
(* and a2a whether that endpoint is non-null.                              *)
(***************************************************************************)
NullNode == Scalar("name", <<"null">>)

Lower(c) == IF c = "A" THEN "a" ELSE c
LowerAll(s) == [i \in 1..Len(s) |-> Lower(s[i])]

Contains(text, part) ==
    \E i \in 1..(Len(text) + 1) :
        /\ i + Len(part) - 1 <= Len(text)
        /\ SubSeq(text, i, i + Len(part) - 1) = part

\* The where input of the service accepts: and / or lists (alone in their
\* object), the nested registrationFile_ filter, and the field conditions the
\* client's templates use.
RECURSIVE ValidFilter(_, _)
ValidFilter(node, entity) ==
    /\ node.k = "obj"
    /\ DistinctNames(node)
    /\ \A i \in 1..Len(node.names) :
         LET n == node.names[i]
             v == node.kids[i]
         IN  CASE n \in {"and", "or"} ->
                    /\ Len(node.names) = 1
                    /\ v.k = "list"
                    /\ \A j \in 1..Len(v.kids) : ValidFilter(v.kids[j], entity)
               [] n = "registrationFile_" /\ entity = "Agent" ->
                    ValidFilter(v, "AgentRegistrationFile")
               [] n = "totalFeedback_gt" /\ entity = "Agent" -> v.k = "int"
               [] n = "totalFeedback_gte" /\ entity = "Agent" -> v.k = "int"
               [] n = "name_contains_nocase" /\ entity = "AgentRegistrationFile" ->
                    v.k = "str"
               [] n \in {"mcpEndpoint_not", "a2aEndpoint_not"}
                  /\ entity = "AgentRegistrationFile" -> v = NullNode
               [] OTHER -> FALSE

RECURSIVE Matches(_, _)
Matches(node, rec) ==
    \A i \in 1..Len(node.names) :
        LET n == node.names[i]
            v == node.kids[i]
        IN  CASE n = "and" -> \A j \in 1..Len(v.kids) : Matches(v.kids[j], rec)
              [] n = "or" -> \E j \in 1..Len(v.kids) : Matches(v.kids[j], rec)
              [] n = "registrationFile_" -> rec.hasFile /\ Matches(v, rec)
              [] n = "totalFeedback_gt" -> rec.totalFeedback > ParseInt(v.s)
              [] n = "totalFeedback_gte" -> rec.totalFeedback >= ParseInt(v.s)
              [] n = "name_contains_nocase" ->
                    Contains(LowerAll(rec.name), LowerAll(v.s))
              [] n = "mcpEndpoint_not" -> rec.mcp
              [] n = "a2aEndpoint_not" -> rec.a2a
              [] OTHER -> FALSE

(***************************************************************************)
(* Bounds and inputs                                                       *)
(***************************************************************************)
MaxSearchLen == 2

SearchAlphabet == {"a", "1", DQ, BS, "}", NL}

\* A search text that closes the string literal and the search condition,
\* opens an or-list of its own and comments out the rest of the line.
InjectionPayload ==
    <<"a", DQ, "}", "}", ",", "{", "or", ":", "[",
      "{", "totalFeedback_gte", ":", "0", "}", ",", HASH>>

RECURSIVE StringsUpTo(_, _)
StringsUpTo(alphabet, n) ==
    IF n = 0 THEN {<<>>}
    ELSE LET shorter == StringsUpTo(alphabet, n - 1) IN
         shorter \cup {Append(s, c) : s \in shorter, c \in alphabet}

SearchInputs == StringsUpTo(SearchAlphabet, MaxSearchLen) \cup {InjectionPayload}

PAGE_SIZES == <<12, 24, 48, 99>>
DEFAULT_PAGE_SIZE == 24
PageSizeSet == {PAGE_SIZES[i] : i \in 1..Len(PAGE_SIZES)}

(***************************************************************************)
(* fetchAgentWithFeedback and fetchGlobalStats: the query texts            *)
(***************************************************************************)
\* The feedback arguments without the isRevoked filter.
FeedbackArguments_NoRevokedFilter ==
    <<"first", ":", "5", "0", NL,
      "orderBy", ":", "createdAt", NL,
      "orderDirection", ":", "desc", NL>>

\* The arguments of the feedback sub-selection.
FeedbackArguments ==
    <<"first", ":", "5", "0", NL,
      "orderBy", ":", "createdAt", NL,
      "orderDirection", ":", "desc", NL,
      "where", ":", "{", "isRevoked", ":", "false", "}", NL>>

DetailQuery(agentId) ==
    <<NL, "{", NL, "agent", "(", "id", ":", DQ>> \o agentId \o <<DQ, ")", "{", NL,
      "id", NL, "chainId", NL, "agentId", NL, "agentURI", NL, "owner", NL,
      "createdAt", NL, "updatedAt", NL, "totalFeedback", NL,
      "registrationFile", "{", NL, "name", NL, "description", NL, "image", NL,
      "mcpEndpoint", NL, "a2aEndpoint", NL, "supportedTrusts", NL, "ens", NL,
      "agentWallet", NL, "}", NL,
      "feedback", "(", NL>> \o FeedbackArguments \o <<
      ")", "{", NL,
      "id", NL, "score", NL, "tag1", NL, "tag2", NL, "clientAddress", NL,
      "createdAt", NL, "isRevoked", NL,
      "feedbackFile", "{", NL, "text", NL, "capability", NL, "skill", NL, "}", NL,
      "}", NL, "}", NL, "}", NL>>

StatsQuery ==
    <<NL, "{", NL, "globalStats", "(", "id", ":", DQ, "global", DQ, ")", "{", NL,
      "totalAgents", NL, "totalFeedback", NL, "}", NL, "}", NL>>

(***************************************************************************)
(* The remote service: what it holds                                       *)
(*                                                                         *)
(* store.n agents, numbered from 1; store.fb is the feedback of agent 1,   *)
(* oldest first, each entry a [score, isRevoked].                          *)
(***************************************************************************)
MaxAgents == 26
MaxFeedback == 3

ScoreTexts == {<<"1">>, <<"8", "0">>, <<"9", "0">>, <<"1", "0", "0">>}

AgentId(i) == <<"1", ":">> \o NatToString(i)

AgentName(i) ==
    (CASE i % 3 = 0 -> <<"b">>
       [] i % 3 = 1 -> <<"A", "b">>
       [] OTHER -> <<"b", "a">>)
    \o (IF i >= 8 /\ i \notin {9, 13} THEN <<"1">> ELSE <<>>)

FeedbackEntry(fb, k) ==
    [n |-> k, id |-> <<"f">> \o NatToString(k), score |-> fb[k].score,
     createdAt |-> k, isRevoked |-> fb[k].isRevoked]

MakeAgent(i, fb) ==
    [n |-> i, id |-> AgentId(i), agentURI |-> <<"ipfs">> \o NatToString(i),
     createdAt |-> (i * 7) % 31,
     hasFile |-> i % 5 # 0, name |-> AgentName(i),
     totalFeedback |-> IF i = 1 THEN Len(fb) ELSE i % 2,
     mcp |-> i % 4 = 1, a2a |-> i % 6 = 2,
     feedback |-> IF i = 1 THEN [k \in 1..Len(fb) |-> FeedbackEntry(fb, k)] ELSE <<>>]

StoreAgents(st) == [i \in 1..st.n |-> MakeAgent(i, st.fb)]

(***************************************************************************)
(* The remote service: executing a query                                   *)
(***************************************************************************)
Before(x, y, dir) ==
    IF x.createdAt # y.createdAt
    THEN IF dir = "desc" THEN x.createdAt > y.createdAt ELSE x.createdAt < y.createdAt
    ELSE x.n < y.n

\* rs ordered by createdAt in direction dir.
Sorted(rs, dir) ==
    [k \in 1..Len(rs) |->
        rs[CHOOSE i \in 1..Len(rs) :
              Cardinality({j \in 1..Len(rs) : Before(rs[j], rs[i], dir)}) = k - 1]]

\* The first records of rs after the skip first ones.
Page(rs, first, skip) ==
    SubSeq(rs, skip + 1, IF skip + first < Len(rs) THEN skip + first ELSE Len(rs))

NoData ==
    [agents |-> <<>>, agent |-> <<>>, feedback |-> <<>>,
     totalAgents |-> <<>>, count |-> <<>>]
DataResponse(data) ==
    [ok |-> TRUE, status |-> 200, errors |-> <<>>, hasData |-> TRUE, data |-> data]
ErrorResponse(message) ==
    [ok |-> TRUE, status |-> 200, errors |-> <<message>>, hasData |-> FALSE,
     data |-> NoData]
TransportFailure(status) ==
    [ok |-> FALSE, status |-> status, errors |-> <<>>, hasData |-> FALSE,
     data |-> NoData]

\* The fields of an agent that the pages read from a response.
Selected(agent) ==
    [id |-> agent.id, agentURI |-> agent.agentURI,
     totalFeedback |-> NumberToString(agent.totalFeedback)]

\* The response as querySubgraph's caller keeps it: without the data.
Envelope(response) ==
    [ok |-> response.ok, status |-> response.status, errors |-> response.errors,
     hasData |-> response.hasData]

NamesWithin(node, allowed) ==
    DistinctNames(node) /\ \A i \in 1..Len(node.names) : node.names[i] \in allowed

\* first, skip, orderBy and orderDirection of a collection field.
ValidPaging(a) ==
    /\ HasField(a, "first") =>
          Field(a, "first").k = "int" /\ ParseInt(Field(a, "first").s) \in 0..1000
    /\ HasField(a, "skip") =>
          Field(a, "skip").k = "int" /\ ParseInt(Field(a, "skip").s) >= 0
    /\ HasField(a, "orderBy") /\ Field(a, "orderBy") = Scalar("name", <<"createdAt">>)
    /\ HasField(a, "orderDirection")
    /\ Field(a, "orderDirection") \in {Scalar("name", <<"asc">>), Scalar("name", <<"desc">>)}

Paged(rs, a) ==
    Page(Sorted(rs, Field(a, "orderDirection").s[1]),
         IF HasField(a, "first") THEN ParseInt(Field(a, "first").s) ELSE 100,
         IF HasField(a, "skip") THEN ParseInt(Field(a, "skip").s) ELSE 0)

AgentFieldNames ==
    {"id", "chainId", "agentId", "agentURI", "owner", "createdAt", "updatedAt",
     "totalFeedback", "registrationFile", "feedback"}

ExecAgents(f, st) ==
    LET a == f.args
        all == StoreAgents(st)
    IN  IF /\ NamesWithin(a, {"first", "skip", "orderBy", "orderDirection", "where"})
           /\ ValidPaging(a)
           /\ HasField(a, "where") => ValidFilter(Field(a, "where"), "Agent")
           /\ \A i \in 1..Len(f.sel) : f.sel[i].name \in AgentFieldNames
        THEN LET hits == IF HasField(a, "where")
                         THEN SelectSeq(all, LAMBDA r : Matches(Field(a, "where"), r))
                         ELSE all
                 page == Paged(hits, a)
             IN  DataResponse(
                    [NoData EXCEPT
                       !.agents = [i \in 1..Len(page) |-> Selected(page[i])]])
        ELSE ErrorResponse(<<"Invalid value provided for argument">>)

ValidFeedbackFilter(w) ==
    /\ w.k = "obj"
    /\ NamesWithin(w, {"isRevoked"})
    /\ \A i \in 1..Len(w.kids) :
          w.kids[i] \in {Scalar("name", <<"true">>), Scalar("name", <<"false">>)}

FeedbackMatches(w, e) ==
    \A i \in 1..Len(w.names) : e.isRevoked = (w.kids[i].s = <<"true">>)

\* The feedback of an agent as its feedback(...) sub-selection asks for it.
ExecFeedback(f, agent) ==
    LET a == f.args
        hits == IF HasField(a, "where")
                THEN SelectSeq(agent.feedback,
                               LAMBDA e : FeedbackMatches(Field(a, "where"), e))
                ELSE agent.feedback
    IN  Paged(hits, a)

ExecAgent(f, st) ==
    LET a == f.args
        all == StoreAgents(st)
        subs == SelectSeq(f.sel, LAMBDA x : x.name = "feedback")
    IN  IF /\ a.names = <<"id">> /\ a.kids[1].k = "str"
           /\ \A i \in 1..Len(f.sel) : f.sel[i].name \in AgentFieldNames
           /\ Len(subs) <= 1
           /\ \A i \in 1..Len(subs) :
                 /\ NamesWithin(subs[i].args,
                                {"first", "skip", "orderBy", "orderDirection", "where"})
                 /\ ValidPaging(subs[i].args)
                 /\ HasField(subs[i].args, "where") =>
                       ValidFeedbackFilter(Field(subs[i].args, "where"))
        THEN LET found == SelectSeq(all, LAMBDA r : r.id = a.kids[1].s) IN
             IF found = <<>> THEN DataResponse(NoData)
             ELSE DataResponse(
                    [NoData EXCEPT
                       !.agent = <<Selected(found[1])>>,
                       !.feedback = IF subs = <<>> THEN <<>>
                                    ELSE ExecFeedback(subs[1], found[1])])
        ELSE ErrorResponse(<<"Invalid value provided for argument">>)

ExecGlobalStats(f, st) ==
    IF f.args = Obj(<<"id">>, <<Scalar("str", <<"global">>)>>)
       /\ \A i \in 1..Len(f.sel) : f.sel[i].name \in {"totalAgents", "totalFeedback"}
    THEN DataResponse([NoData EXCEPT !.totalAgents = NumberToString(st.n)])
    ELSE ErrorResponse(<<"Invalid value provided for argument">>)

ExecField(f, st) ==
    CASE f.name = "agents" -> ExecAgents(f, st)
      [] f.name = "agent" -> ExecAgent(f, st)
      [] f.name = "globalStats" -> ExecGlobalStats(f, st)
      [] OTHER -> ErrorResponse(<<"Type Query has no field">>)

Execute(d, st) ==
    IF ~d.ok THEN ErrorResponse(<<"Syntax Error">>)
    ELSE IF Len(d.fields) # 1 THEN ErrorResponse(<<"Unsupported document">>)
    ELSE ExecField(d.fields[1], st)

\* The service's answer to a query text.
RemoteAnswer(query, st) == Execute(ParseDocument(query), st)

(***************************************************************************)
(* querySubgraph and the gateway operations                                *)
(***************************************************************************)
NoOutcome == [thrown |-> FALSE, message |-> <<>>, data |-> NoData]

\* querySubgraph returning the data of a response that has some, whatever
\* its errors array holds.
QuerySubgraph_DataFirst(response) ==
    IF ~response.ok
    THEN [thrown |-> TRUE,
          message |-> <<"Subgraph request failed: ">> \o NumberToString(response.status),
          data |-> NoData]
    ELSE IF response.hasData
         THEN [thrown |-> FALSE, message |-> <<>>, data |-> response.data]
         ELSE [thrown |-> TRUE,
               message |-> <<"GraphQL error: ">> \o response.errors[1],
               data |-> NoData]

\* What querySubgraph makes of a response: the data, or a thrown error.
QuerySubgraph(response) ==
    IF ~response.ok
    THEN [thrown |-> TRUE,
          message |-> <<"Subgraph request failed: ">> \o NumberToString(response.status),
          data |-> NoData]
    ELSE IF response.errors # <<>>
         THEN [thrown |-> TRUE,
               message |-> <<"GraphQL error: ">> \o response.errors[1],
               data |-> NoData]
         ELSE [thrown |-> FALSE, message |-> <<>>, data |-> response.data]

WithMetadataUri(agent) ==
    [k \in DOMAIN agent \cup {"metadataUri"} |->
        IF k = "metadataUri" THEN agent.agentURI ELSE agent[k]]

\* fetchAgents after its await: r is what querySubgraph gave.
MapAgents(r) ==
    IF r.thrown THEN r
    ELSE [r EXCEPT !.data.agents =
             [i \in 1..Len(r.data.agents) |-> WithMetadataUri(r.data.agents[i])]]

FetchAgentsResult(response) == MapAgents(QuerySubgraph(response))

\* fetchAgentWithFeedback after its await: r is what querySubgraph gave.
AgentOrAbsent(r) ==
    IF r.thrown THEN r
    ELSE IF r.data.agent = <<>>
         THEN [r EXCEPT !.data.agent = <<>>, !.data.feedback = <<>>]
         ELSE [r EXCEPT !.data.agent = <<WithMetadataUri(r.data.agent[1])>>]

FetchAgentWithFeedbackResult(response) == AgentOrAbsent(QuerySubgraph(response))

FetchGlobalStatsResult(response) == QuerySubgraph(response)

\* fetchAgentCount(filters): the number of agents the filters select.
MatchesFilters(filters, r) ==
    /\ filters.search # <<>> =>
          r.hasFile /\ Contains(LowerAll(r.name), LowerAll(filters.search))
    /\ filters.hasReviews => r.totalFeedback > 0
    /\ filters.hasEndpoint => r.hasFile /\ (r.mcp \/ r.a2a)

CountAnswer(filters, st) ==
    DataResponse(
        [NoData EXCEPT !.count =
            <<Cardinality({i \in 1..st.n : MatchesFilters(filters, MakeAgent(i, st.fb))})>>])

FetchAgentCountResult(response) == QuerySubgraph(response)

(***************************************************************************)
(* JavaScript arithmetic on numbers that may be NaN                        *)
(***************************************************************************)
JsSub(a, b) == IF a = NaN \/ b = NaN THEN NaN ELSE a - b
JsMul(a, b) == IF a = NaN \/ b = NaN THEN NaN ELSE a * b
JsLess(a, b) == a # NaN /\ b # NaN /\ a < b
\* Math.ceil(a / b) for a >= 0 and b > 0.
CeilDiv(a, b) == IF a = NaN \/ b = NaN THEN NaN ELSE (a + b - 1) \div b
\* value || fallback on strings: the empty string and undefined are falsy.
OrElse(value, fallback) == IF value # <<>> THEN value ELSE fallback

(***************************************************************************)
(* The list page: URL state                                                *)
(*                                                                         *)
(* A params record gives every key a text; <<>> stands for both the empty  *)
(* string and an absent key (the code only tests these for truthiness).    *)
(* A URL is the sequence of [key, value] pairs of its query string, the     *)
(* values as URLSearchParams writes them; the URL "/" is <<>>.             *)
(***************************************************************************)
ParamKeys == <<"search", "page", "perPage", "hasReviews", "hasEndpoint">>
ParamKeySet == {ParamKeys[i] : i \in 1..Len(ParamKeys)}

\* The query string put together without URLSearchParams: values as they are.
FormEncodeChunk_Plain(c) == c

\* URLSearchParams.toString() on the characters the model's values use.
FormEncodeChunk(c) ==
    CASE c = " " -> "+"
      [] c = "+" -> "%2B"
      [] c = DQ -> "%22"
      [] OTHER -> c
FormEncode(value) == [i \in 1..Len(value) |-> FormEncodeChunk(value[i])]

\* The decoding of a query-string value on its way into searchParams.
FormDecodeChunk(c) ==
    CASE c = "+" -> " "
      [] c = "%2B" -> "+"
      [] c = "%22" -> DQ
      [] OTHER -> c
FormDecode(value) == [i \in 1..Len(value) |-> FormDecodeChunk(value[i])]

\* buildUrl setting every key that has a non-empty value.
Kept_Truthy(key, value) == value # <<>>

\* The condition under which buildUrl sets a key.
Kept(key, value) ==
    /\ value # <<>>
    /\ value # <<"1">>
    /\ ~(key = "perPage" /\ value = NumberToString(DEFAULT_PAGE_SIZE))

buildUrl(current, updates) ==
    LET merged == [k \in ParamKeySet |->
                      IF k \in DOMAIN updates THEN updates[k] ELSE current[k]]
        entries == [i \in 1..Len(ParamKeys) |->
                      [key |-> ParamKeys[i], value |-> merged[ParamKeys[i]]]]
        set == SelectSeq(entries, LAMBDA e : Kept(e.key, e.value))
    IN  [i \in 1..Len(set) |-> [key |-> set[i].key, value |-> FormEncode(set[i].value)]]

\* PageSizeSelect.handleChange(newSize): the URL it pushes.
handleChange(currentParams, newSize) ==
    LET entries == [i \in 1..Len(ParamKeys) |->
                      [key |-> ParamKeys[i],
                       value |-> IF ParamKeys[i] = "perPage"
                                 THEN NumberToString(newSize)
                                 ELSE currentParams[ParamKeys[i]]]]
        set == SelectSeq(entries,
                         LAMBDA e : CASE e.key = "perPage" -> newSize # 24
                                      [] e.key = "page" -> FALSE
                                      [] OTHER -> e.value # <<>>)
    IN  [i \in 1..Len(set) |-> [key |-> set[i].key, value |-> FormEncode(set[i].value)]]

\* The searchParams the framework hands to Home for a URL.
ParamsOfUrl(url) ==
    [k \in ParamKeySet |->
        IF \E i \in 1..Len(url) : url[i].key = k
        THEN FormDecode(url[CHOOSE i \in 1..Len(url) : url[i].key = k].value)
        ELSE <<>>]

\* skip = page * pageSize
SkipOf_PageTimesSize(page, pageSize) == JsMul(page, pageSize)

\* skip = (page - 1) * pageSize
SkipOf(page, pageSize) == JsMul(JsSub(page, 1), pageSize)

\* Home, up to the values it derives from the search params.
HomeParse(p) ==
    LET search == OrElse(p.search, <<>>)
        page == ParseInt(OrElse(p.page, <<"1">>))
        perPage == ParseInt(OrElse(p.perPage, NumberToString(DEFAULT_PAGE_SIZE)))
        hasReviews == p.hasReviews = <<"true">>
        hasEndpoint == p.hasEndpoint = <<"true">>
        pageSize == IF perPage \in PageSizeSet THEN perPage ELSE DEFAULT_PAGE_SIZE
    IN  [search |-> search, page |-> page, pageSize |-> pageSize,
         hasReviews |-> hasReviews, hasEndpoint |-> hasEndpoint,
         skip |-> SkipOf(page, pageSize),
         filters |-> [search |-> search, hasReviews |-> hasReviews,
                      hasEndpoint |-> hasEndpoint],
         currentParams |->
            [search |-> search, page |-> NumberToString(page),
             perPage |-> NumberToString(pageSize),
             hasReviews |-> IF hasReviews THEN <<"true">> ELSE <<>>,
             hasEndpoint |-> IF hasEndpoint THEN <<"true">> ELSE <<>>],
         hasActiveFilters |-> hasReviews \/ hasEndpoint \/ search # <<>>]

(***************************************************************************)
(* The pages                                                               *)
(***************************************************************************)
FailStatuses == {404, 500}

SearchParams == {<<>>, <<"a">>, <<"1">>, <<DQ>>}
PageParams == {<<>>, <<"2">>, <<"0">>, <<"x">>}
PerPageParams == {<<>>, <<"1", "2">>, <<"7">>, <<"1", "2", "x">>}
FlagParams == {<<>>, <<"true">>}
StoreSizes == {0, 13, MaxAgents}
PathInputs == {<<"1", "%3A", "1">>, <<"1", "%3A", "2">>, <<"%22">>, <<"%">>}
FeedbackLists ==
    StringsUpTo([score : ScoreTexts, isRevoked : BOOLEAN], MaxFeedback)

ReqNames == {"list", "stats", "count", "detail"}

NoParams == [k \in ParamKeySet |-> <<>>]
NoResponse == Envelope(TransportFailure(0))
NoRequest == [st |-> "none", sent |-> 0, query |-> <<>>, resp |-> NoResponse,
              out |-> NoOutcome]
\* The operation has called fetch once and awaits the response.
Pending(query) == [NoRequest EXCEPT !.st = "pending", !.sent = 1, !.query = query]

NoView ==
    [kind |-> "none", agents |-> <<>>, totalAgents |-> 0, totalPages |-> 0,
     showPrev |-> FALSE, showNext |-> FALSE, prevUrl |-> <<>>, nextUrl |-> <<>>,
     avgScore |-> <<>>, feedback |-> <<>>, message |-> <<>>]
\* The error reaches the rendering boundary: nothing of the page is shown.
ErrorView(message) == [NoView EXCEPT !.kind = "error", !.message = message]
\* notFound()
NotFoundView == [NoView EXCEPT !.kind = "notfound"]

JsAdd(a, b) == IF a = NaN \/ b = NaN THEN NaN ELSE a + b

\* filteredCount || parseInt(stats.totalAgents): a count of 0 is falsy.
TotalAgents_Falsy(filteredCount, stats) ==
    IF filteredCount # <<>> /\ filteredCount[1] # 0 THEN filteredCount[1]
    ELSE ParseInt(stats.totalAgents)

\* filteredCount ?? parseInt(stats.totalAgents): filteredCount is <<>> for
\* null and <<n>> for the number n.
TotalAgents(filteredCount, stats) ==
    IF filteredCount # <<>> THEN filteredCount[1] ELSE ParseInt(stats.totalAgents)

\* Promise.race in place of Promise.all: the first settled promise ends the
\* wait.
AllSettled_AnyDone(rq) == \E q \in DOMAIN rq : rq[q].st = "done"

\* Promise.all resolves when none of its promises is pending any more (a
\* rejection has ended the wait before).
AllSettled(rq) == \A q \in DOMAIN rq : rq[q].st # "pending"

\* The rendered page joins the trail when it is the page after the trail's
\* last one under the same filters and page size; otherwise it starts one.
Trailed(tr, h, agents) ==
    LET entry == [page |-> h.page, pageSize |-> h.pageSize, filters |-> h.filters,
                  agents |-> agents]
    IN  IF tr # <<>> /\ tr[Len(tr)].page + 1 = h.page
           /\ tr[Len(tr)].pageSize = h.pageSize /\ tr[Len(tr)].filters = h.filters
        THEN Append(tr, entry)
        ELSE <<entry>>

\* Home after the join: the values the list view shows.
HomeRender(h, rq) ==
    LET agents == rq["list"].out.data.agents
        stats == rq["stats"].out.data
        filteredCount == IF h.hasActiveFilters THEN rq["count"].out.data.count
                         ELSE <<>>
        totalAgents == TotalAgents(filteredCount, stats)
        totalPages == CeilDiv(totalAgents, h.pageSize)
        paging == agents # <<>> /\ JsLess(1, totalPages)
        prev == paging /\ JsLess(1, h.page)
        next == paging /\ JsLess(h.page, totalPages)
    IN  [NoView EXCEPT
           !.kind = "list",
           !.agents = [i \in 1..Len(agents) |-> agents[i].id],
           !.totalAgents = totalAgents,
           !.totalPages = totalPages,
           !.showPrev = prev,
           !.showNext = next,
           !.prevUrl = IF prev
                       THEN buildUrl(h.currentParams,
                                     [page |-> NumberToString(JsSub(h.page, 1))])
                       ELSE <<>>,
           !.nextUrl = IF next
                       THEN buildUrl(h.currentParams,
                                     [page |-> NumberToString(JsAdd(h.page, 1))])
                       ELSE <<>>]

\* The path segment used as it is.
DecodeChunk_Raw(c) == c

\* decodeURIComponent on the escapes the model's paths use; a % that starts
\* no escape throws URIError.
DecodeChunk(c) ==
    CASE c = "%3A" -> ":"
      [] c = "%22" -> DQ
      [] c = "%25" -> "%"
      [] OTHER -> c
DecodeURIComponent(s) ==
    [ok |-> \A i \in 1..Len(s) : s[i] # "%",
     text |-> [i \in 1..Len(s) |-> DecodeChunk(s[i])]]

RECURSIVE SumScores(_)
SumScores(feedback) ==
    IF feedback = <<>> THEN 0
    ELSE JsAdd(ParseInt(Head(feedback).score), SumScores(Tail(feedback)))

\* Math.floor(sum / count)
MathRound_Truncating(sum, count) ==
    IF sum = NaN THEN NaN ELSE sum \div count

\* Math.round(sum / count): the nearest integer, a half going up.
MathRound(sum, count) ==
    IF sum = NaN THEN NaN ELSE (2 * sum + count) \div (2 * count)

AvgScore(feedback) ==
    IF Len(feedback) > 0
    THEN <<MathRound(SumScores(feedback), Len(feedback))>>
    ELSE <<>>

\* AgentPage after the fetch: the values the detail view shows.
AgentPageRender(out) ==
    [NoView EXCEPT !.kind = "detail",
                   !.agents = <<out.data.agent[1].id>>,
                   !.avgScore = AvgScore(out.data.feedback),
                   !.feedback = out.data.feedback]

OperationResult(r, response) ==
    CASE r = "list" -> FetchAgentsResult(response)
      [] r = "stats" -> FetchGlobalStatsResult(response)
      [] r = "count" -> FetchAgentCountResult(response)
      [] r = "detail" -> FetchAgentWithFeedbackResult(response)

\* The responses the operation r may get: the service's answer, the same
\* answer with an errors array beside its data, or a transport failure.
ResponsesWith(answer) ==
    {answer}
    \cup {TransportFailure(status) : status \in FailStatuses}
    \cup (IF answer.hasData
          THEN {[answer EXCEPT !.errors = <<<<"indexing_error">>>>]}
          ELSE {})

Responses(r) ==
    ResponsesWith(IF r = "count"
                  THEN CountAnswer(HomeParse(params).filters, store)
                  ELSE RemoteAnswer(reqs[r].query, store))

InitPages ==
    /\ qin = [first |-> DEFAULT_PAGE_SIZE, page |-> 1,
              filters |-> [search |-> <<>>, hasReviews |-> FALSE,
                           hasEndpoint |-> FALSE]]
    /\ qout = <<>>
    /\ qpc = "idle"
    /\ \/ /\ route = "list"
          /\ params \in [search : SearchParams, page : PageParams,
                         perPage : PerPageParams, hasReviews : FlagParams,
                         hasEndpoint : FlagParams]
          /\ pathId = <<>>
          /\ store \in [n : StoreSizes, fb : {<<>>}]
       \/ /\ route = "detail"
          /\ params = NoParams
          /\ pathId \in PathInputs
          /\ store \in [n : {1}, fb : FeedbackLists]
    /\ pc = "start"
    /\ reqs = [r \in ReqNames |-> NoRequest]
    /\ order = <<>>
    /\ view = NoView
    /\ trail = <<>>
    /\ linked = <<>>

\* Home up to the await: the requests of Promise.all are all sent.
HomeDispatch ==
    /\ pc = "start" /\ route = "list"
    /\ \E h \in {HomeParse(params)} :
       reqs' = [r \in ReqNames |->
                  CASE r = "list" -> Pending(AgentsQuery(h.pageSize, h.skip, h.filters))
                    [] r = "stats" -> Pending(StatsQuery)
                    [] r = "count" /\ h.hasActiveFilters -> Pending(<<"count">>)
                    [] OTHER -> NoRequest]
    /\ pc' = "waiting"
    /\ UNCHANGED <<queryVars, linked, route, params, pathId, store, order, view, trail>>

\* AgentPage up to the await.
AgentPageDispatch ==
    /\ pc = "start" /\ route = "detail"
    /\ \E d \in {DecodeURIComponent(pathId)} :
       IF d.ok
       THEN /\ reqs' = [reqs EXCEPT !["detail"] = Pending(DetailQuery(d.text))]
            /\ pc' = "waiting"
            /\ UNCHANGED view
       ELSE /\ pc' = "failed"
            /\ view' = ErrorView(<<"URIError">>)
            /\ UNCHANGED reqs
    /\ UNCHANGED <<queryVars, linked, route, params, pathId, store, order, trail>>

\* A response arrives: querySubgraph and the operation finish, and the page
\* resumes when its await settles (Promise.all rejects with the first
\* rejection and resolves when every promise has resolved).  Once the page
\* has failed, later responses change nothing and are left out.
Respond(r) ==
    /\ pc = "waiting"
    /\ reqs[r].st = "pending"
    /\ \E response \in Responses(r) :
       \E out \in {OperationResult(r, response)} :
       \E h \in {HomeParse(params)} :
         LET rq == [reqs EXCEPT ![r] = [@ EXCEPT !.st = "done",
                                                 !.resp = Envelope(response),
                                                 !.out = out]]
         IN  /\ reqs' = rq
             /\ order' = Append(order, r)
             /\ IF out.thrown
                THEN pc' = "failed" /\ view' = ErrorView(out.message)
                     /\ UNCHANGED trail
                ELSE IF route = "detail"
                THEN IF out.data.agent = <<>>
                     THEN pc' = "notfound" /\ view' = NotFoundView /\ UNCHANGED trail
                     ELSE pc' = "rendered" /\ view' = AgentPageRender(out)
                          /\ UNCHANGED trail
                ELSE IF AllSettled(rq)
                THEN /\ pc' = "rendered"
                     /\ \E v \in {HomeRender(h, rq)} :
                          view' = v /\ trail' = Trailed(trail, h, v.agents)
                ELSE UNCHANGED <<pc, view, trail>>
    /\ UNCHANGED <<queryVars, linked, route, params, pathId, store>>

\* The visitor follows the Next link of the rendered list.
NextPage ==
    /\ pc = "rendered" /\ route = "list" /\ view.showNext
    /\ params' = ParamsOfUrl(view.nextUrl)
    /\ pc' = "start"
    /\ reqs' = [r \in ReqNames |-> NoRequest]
    /\ order' = <<>>
    /\ view' = NoView
    /\ UNCHANGED <<queryVars, linked, route, pathId, store, trail>>

\* The visitor follows the Previous link of the rendered list.
PreviousPage ==
    /\ pc = "rendered" /\ route = "list" /\ view.showPrev
    /\ params' = ParamsOfUrl(view.prevUrl)
    /\ pc' = "start"
    /\ reqs' = [r \in ReqNames |-> NoRequest]
    /\ order' = <<>>
    /\ view' = NoView
    /\ trail' = <<>>
    /\ UNCHANGED <<queryVars, linked, route, pathId, store>>

\* The list page is requested anew with the search params p: only the Next
\* link can continue the trail of pages.
Navigate(p) ==
    /\ pc = "rendered" /\ route = "list"
    /\ params' = p
    /\ pc' = "start"
    /\ reqs' = [r \in ReqNames |-> NoRequest]
    /\ order' = <<>>
    /\ view' = NoView
    /\ trail' = <<>>
    /\ UNCHANGED <<queryVars, linked, route, pathId, store>>

\* The visitor follows the "Has reviews" or the "Has API endpoint" button.
ToggleFilter(k) ==
    \E h \in {HomeParse(params)} :
        Navigate(ParamsOfUrl(
            buildUrl(h.currentParams,
                     [x \in {k, "page"} |->
                        IF x = "page" THEN <<"1">>
                        ELSE IF h[k] THEN <<>> ELSE <<"true">>])))

\* The visitor follows "Clear all" (or "Clear filters" of the empty list).
ClearAll ==
    /\ HomeParse(params).hasActiveFilters
    /\ Navigate(NoParams)

\* The visitor picks another size in the page-size selector.
ChangePageSize(newSize) ==
    /\ view.agents # <<>>
    /\ \E h \in {HomeParse(params)} :
          /\ newSize # h.pageSize
          /\ Navigate(ParamsOfUrl(handleChange(h.currentParams, newSize)))

\* The URL of the search form submitted with the text typed: the input and
\* the hidden fields present.
SearchFormUrl(h, text) ==
    LET fields == <<[key |-> "search", value |-> text]>>
                  \o (IF h.hasReviews
                      THEN <<[key |-> "hasReviews", value |-> <<"true">>]>> ELSE <<>>)
                  \o (IF h.hasEndpoint
                      THEN <<[key |-> "hasEndpoint", value |-> <<"true">>]>> ELSE <<>>)
                  \o (IF h.pageSize # DEFAULT_PAGE_SIZE
                      THEN <<[key |-> "perPage", value |-> NumberToString(h.pageSize)]>>
                      ELSE <<>>)
    IN  [i \in 1..Len(fields) |->
            [key |-> fields[i].key, value |-> FormEncode(fields[i].value)]]

\* The visitor submits the search form.
SubmitSearch(text) ==
    \E h \in {HomeParse(params)} : Navigate(ParamsOfUrl(SearchFormUrl(h, text)))

\* encodeURIComponent on the characters the model's ids use.
EncodeChunk(c) ==
    CASE c = ":" -> "%3A"
      [] c = DQ -> "%22"
      [] c = "%" -> "%25"
      [] OTHER -> c
EncodeURIComponent(s) == [i \in 1..Len(s) |-> EncodeChunk(s[i])]

\* The visitor follows the link of an agent card.  AgentPage gets the path
\* segment as it is in the URL or, depending on the framework, decoded.
OpenAgent ==
    /\ pc = "rendered" /\ route = "list"
    /\ \E i \in 1..Len(view.agents) :
       \E href \in {EncodeURIComponent(view.agents[i])} :
          /\ linked' = view.agents[i]
          /\ pathId' \in {href, DecodeURIComponent(href).text}
    /\ route' = "detail"
    /\ params' = NoParams
    /\ pc' = "start"
    /\ reqs' = [r \in ReqNames |-> NoRequest]
    /\ order' = <<>>
    /\ view' = NoView
    /\ trail' = <<>>
    /\ UNCHANGED <<queryVars, store>>

Next ==
    \/ HomeDispatch
    \/ AgentPageDispatch
    \/ \E r \in ReqNames : Respond(r)
    \/ NextPage
    \/ PreviousPage
    \/ \E k \in {"hasReviews", "hasEndpoint"} : ToggleFilter(k)
    \/ ClearAll
    \/ \E newSize \in PageSizeSet : ChangePageSize(newSize)
    \/ \E text \in SearchParams : SubmitSearch(text)
    \/ OpenAgent

Spec == InitPages /\ [][Next]_vars

(***************************************************************************)
(* One call of fetchAgents, up to the query it sends                       *)
(***************************************************************************)
InitQuery ==
    /\ qin \in [first : PageSizeSet, page : 1..2,
                filters : [search : SearchInputs,
                           hasReviews : BOOLEAN, hasEndpoint : BOOLEAN]]
    /\ qout = <<>>
    /\ qpc = "input"
    /\ route = "none"
    /\ params = NoParams
    /\ pathId = <<>>
    /\ store = [n |-> 0, fb |-> <<>>]
    /\ pc = "idle"
    /\ reqs = [r \in ReqNames |-> NoRequest]
    /\ order = <<>>
    /\ view = NoView
    /\ trail = <<>>
    /\ linked = <<>>

BuildAgentsQuery ==
    /\ qpc = "input"
    /\ qout' = AgentsQuery(qin.first, (qin.page - 1) * qin.first, qin.filters)
    /\ qpc' = "built"
    /\ UNCHANGED <<qin, pageVars>>

NextQuery == BuildAgentsQuery

SpecQuery == InitQuery /\ [][NextQuery]_vars

(***************************************************************************)
(* Claims about the query builder                                          *)
(***************************************************************************)
SearchTree(search) ==
    Obj(<<"registrationFile_">>,
        <<Obj(<<"name_contains_nocase">>, <<Scalar("str", search)>>)>>)
ReviewsTree == Obj(<<"totalFeedback_gt">>, <<Scalar("int", <<"0">>)>>)
EndpointTree ==
    Obj(<<"or">>,
        <<List(<<Obj(<<"registrationFile_">>,
                     <<Obj(<<"mcpEndpoint_not">>, <<NullNode>>)>>),
                 Obj(<<"registrationFile_">>,
                     <<Obj(<<"a2aEndpoint_not">>, <<NullNode>>)>>)>>)>>)

ActiveTrees(f) ==
    (IF f.search # <<>> THEN <<SearchTree(f.search)>> ELSE <<>>)
    \o (IF f.hasReviews THEN <<ReviewsTree>> ELSE <<>>)
    \o (IF f.hasEndpoint THEN <<EndpointTree>> ELSE <<>>)

\* The filter expression the service reads is exactly the active conditions.
OneFilterExpression(query, f) ==
    LET d == ParseDocument(query)
        act == ActiveTrees(f)
    IN  /\ d.ok /\ FieldNames(d.fields) = <<"agents">>
        /\ LET args == d.fields[1].args IN
           /\ Len(act) = 0 => ~HasField(args, "where")
           /\ Len(act) = 1 =>
                HasField(args, "where") /\ Field(args, "where") = act[1]
           /\ Len(act) >= 2 =>
                /\ HasField(args, "where")
                /\ Field(args, "where") = Obj(<<"and">>, <<List(act)>>)

\* C1: for every combination of search, hasReviews and hasEndpoint the query
\* carries exactly one filter expression: no where argument with no active
\* condition, the condition itself with one, and with two or more a single
\* and-group holding every active condition and nothing else.
C1_OneFilterExpression ==
    qpc = "built" => OneFilterExpression(qout, qin.filters)

\* Some agents of the service, one for every combination of the fields the
\* filters read.
FilterRecords ==
    [id : {1}, createdAt : {1}, hasFile : BOOLEAN,
     name : {<<"a">>, <<"b", "1">>}, totalFeedback : {0, 1},
     mcp : BOOLEAN, a2a : BOOLEAN]

\* No object has or next to another key.
RECURSIVE OrAlone(_)
OrAlone(node) ==
    /\ (node.k = "obj" /\ HasField(node, "or")) => Len(node.names) = 1
    /\ \A i \in 1..Len(node.kids) : OrAlone(node.kids[i])

EndpointRequired(query) ==
    LET d == ParseDocument(query) IN
    (d.ok /\ FieldNames(d.fields) = <<"agents">>
          /\ HasField(d.fields[1].args, "where")) =>
        LET w == Field(d.fields[1].args, "where") IN
        /\ OrAlone(w)
        /\ \A rec \in FilterRecords :
              (ValidFilter(w, "Agent") /\ Matches(w, rec)) => (rec.mcp \/ rec.a2a)

\* C2: with hasEndpoint set, whatever search and hasReviews are, every agent
\* the emitted filter accepts has a non-null MCP endpoint or a non-null A2A
\* endpoint, and no object of the filter has or next to another key.
C2_EndpointRequired ==
    (qpc = "built" /\ qin.filters.hasEndpoint) => EndpointRequired(qout)

\* The tokens of a query with the content of every string literal blanked.
Shape(tokens) ==
    [i \in 1..Len(tokens) |->
        IF tokens[i].t = "str" THEN Tok("str", <<>>) ELSE tokens[i]]

StringValues(tokens) ==
    LET strs == SelectSeq(tokens, LAMBDA x : x.t = "str")
    IN  [i \in 1..Len(strs) |-> strs[i].s]

\* C3: the search text cannot inject query syntax: for every search text the
\* query lexes to the same tokens as for the search text "a", and its one
\* string literal has the search text as its value.
C3_SearchNeutralized ==
    (qpc = "built" /\ qin.filters.search # <<>>) =>
        LET lx == Lex(qout)
            ref == Lex(AgentsQuery(qin.first, (qin.page - 1) * qin.first,
                                   [qin.filters EXCEPT !.search = <<"a">>]))
        IN  /\ lx.ok
            /\ Shape(lx.out) = Shape(ref.out)
            /\ StringValues(lx.out) = <<qin.filters.search>>

(***************************************************************************)
(* Claims about the pages                                                  *)
(***************************************************************************)
\* The ids of the agents the filters select, newest first.
ExpectedIds(filters, st) ==
    LET hits == SelectSeq(StoreAgents(st), LAMBDA r : MatchesFilters(filters, r))
        sorted == Sorted(hits, "desc")
    IN  [i \in 1..Len(sorted) |-> sorted[i].id]

\* The query with everything after its paging and ordering arguments
\* replaced by an empty argument tail and a one-field selection.
HeadOnly(query) ==
    SubSeq(query, 1, Min({i \in 1..Len(query) : query[i] \in {"where", ")"}}) - 1)
    \o <<")", "{", "id", "}", "}">>

IssuedPaging(query, p, s) ==
    LET d == ParseDocument(HeadOnly(query)) IN
    /\ d.ok /\ FieldNames(d.fields) = <<"agents">>
    /\ LET a == d.fields[1].args IN
       /\ a.names = <<"first", "skip", "orderBy", "orderDirection">>
       /\ Field(a, "first") = Scalar("int", NatToString(s))
       /\ Field(a, "skip") = Scalar("int", NatToString((p - 1) * s))
       /\ Field(a, "orderBy") = Scalar("name", <<"createdAt">>)
       /\ Field(a, "orderDirection") = Scalar("name", <<"desc">>)

RECURSIVE Flatten(_)
Flatten(pages) ==
    IF pages = <<>> THEN <<>> ELSE Head(pages).agents \o Flatten(Tail(pages))

\* The pages of the trail, one after the other, are the result set from the
\* first record of the trail's first page on, without a gap or a repeat.
TrailCovers(tr, st) ==
    LET result == ExpectedIds(tr[1].filters, st)
        from == (tr[1].page - 1) * tr[1].pageSize
        upto == (tr[1].page - 1 + Len(tr)) * tr[1].pageSize
    IN  Flatten(tr) = SubSeq(result, from + 1,
                             IF upto < Len(result) THEN upto ELSE Len(result))

\* C4: the list page for page p >= 1 with page size s sends first = s,
\* skip = (p - 1) * s, orderBy createdAt, orderDirection desc, whatever the
\* filters are; and the pages rendered one after the other for the same
\* filters hold the records of the unchanged result set in order, none
\* repeated and none left out.
C4_PagingWindow ==
    /\ (route = "list" /\ reqs["list"].st # "none" /\ HomeParse(params).page >= 1) =>
          IssuedPaging(reqs["list"].query,
                       HomeParse(params).page, HomeParse(params).pageSize)
    /\ trail # <<>> => TrailCovers(trail, store)

C4_Witness ==
    /\ pc = "rendered" /\ route = "list"
    /\ Len(trail) >= 2 /\ trail[2].agents # <<>>
    /\ trail[1].filters.search = <<"a">>

GatewayOperations == {"list", "stats", "detail"}

\* C5: for fetchAgents, fetchAgentWithFeedback and fetchGlobalStats alike, a
\* response with a non-success status makes the operation throw an error
\* whose message holds the status code, a response with an errors array
\* makes it throw an error whose message holds the first error's message even
\* when the response carries data too; in both cases the caller gets no data
\* and the operation has sent its request once only.
C5_FailFast ==
    \A r \in GatewayOperations :
        reqs[r].st = "done" =>
            /\ reqs[r].sent = 1
            /\ ~reqs[r].resp.ok =>
                  /\ reqs[r].out.thrown
                  /\ Contains(reqs[r].out.message, NumberToString(reqs[r].resp.status))
            /\ (reqs[r].resp.ok /\ reqs[r].resp.errors # <<>>) =>
                  /\ reqs[r].out.thrown
                  /\ Contains(reqs[r].out.message, reqs[r].resp.errors[1])
            /\ reqs[r].out.thrown =>
                  /\ reqs[r].out.data = NoData
                  /\ pc = "failed" /\ view.kind = "error"
                  /\ view.agents = <<>> /\ view.feedback = <<>>

C5_Witness ==
    \E r \in GatewayOperations :
        /\ reqs[r].st = "done"
        /\ reqs[r].resp.ok /\ reqs[r].resp.errors # <<>> /\ reqs[r].resp.hasData
        /\ reqs[r].out.thrown

\* C6: when the service holds no agent with the requested id and answers the
\* request itself, fetchAgentWithFeedback does not throw: it gives agent
\* null with an empty feedback list, and the detail page shows the not-found
\* view.
C6_AbsentIsNotAnError ==
    (/\ route = "detail" /\ reqs["detail"].st = "done"
     /\ reqs["detail"].resp = Envelope(RemoteAnswer(reqs["detail"].query, store))
     /\ DecodeURIComponent(pathId).text \notin {AgentId(i) : i \in 1..store.n}) =>
        /\ ~reqs["detail"].out.thrown
        /\ reqs["detail"].out.data.agent = <<>>
        /\ reqs["detail"].out.data.feedback = <<>>
        /\ pc = "notfound" /\ view.kind = "notfound"

\* The integer nearest to sum / count, a half going up.
Nearest(sum, count) ==
    CHOOSE m \in 0..(sum + 1) :
        (2 * m - 1) * count <= 2 * sum /\ 2 * sum < (2 * m + 1) * count

RECURSIVE Total(_)
Total(values) ==
    IF values = <<>> THEN 0 ELSE values[Len(values)] + Total(SubSeq(values, 1, Len(values) - 1))

ScoreValues(entries) == [i \in 1..Len(entries) |-> ParseInt(entries[i].score)]

\* The feedback of the agent that is not revoked.
Standing(st) == SelectSeq(st.fb, LAMBDA e : ~e.isRevoked)

C8_AverageScore ==
    (route = "detail" /\ pc = "rendered") =>
        LET values == ScoreValues(view.feedback) IN
        /\ values = <<>> => view.avgScore = <<>>
        /\ values # <<>> =>
              /\ view.avgScore = <<Nearest(Total(values), Len(values))>>
              /\ view.avgScore[1] \in 0..100
        /\ values = <<80, 90, 100>> => view.avgScore = <<90>>

C8_Witness ==
    /\ route = "detail" /\ pc = "rendered"
    /\ ScoreValues(view.feedback) = <<80, 90, 100>>
    /\ view.avgScore = <<90>>

FilterActive ==
    params.search # <<>> \/ params.hasReviews = <<"true">>
        \/ params.hasEndpoint = <<"true">>

\* C9: the total the list page shows is the filtered count whenever a filter
\* is active, a count of 0 included, and the global totalAgents statistic
\* otherwise; the count is requested exactly when a filter is active; the
\* number of pages is the total divided by the page size, rounded up.
C9_TotalSource ==
    route = "list" =>
        /\ pc \in {"waiting", "rendered", "failed"} =>
              (reqs["count"].st # "none") = FilterActive
        /\ pc = "rendered" =>
              /\ view.totalAgents =
                    IF FilterActive THEN reqs["count"].out.data.count[1] ELSE store.n
              /\ view.totalPages * HomeParse(params).pageSize >= view.totalAgents
              /\ (view.totalPages - 1) * HomeParse(params).pageSize < view.totalAgents

C9_Witness ==
    /\ route = "list" /\ pc = "rendered"
    /\ FilterActive /\ store.n > 0
    /\ reqs["count"].out.data.count = <<0>>
    /\ view.totalAgents = 0

\* The operations Home starts.
Dispatched == {"list", "stats"} \cup (IF FilterActive THEN {"count"} ELSE {})

\* C10: Home starts the agent page, the global statistics and (with an
\* active filter) the count together; it renders exactly when all of them
\* have succeeded, and what it renders depends on the URL and the service's
\* data only, not on the order the responses came in; when one of them
\* fails the page fails and shows nothing of the others.
C10_JoinAll ==
    route = "list" =>
        /\ (pc = "waiting" /\ order = <<>>) =>
              \A r \in Dispatched : reqs[r].st = "pending" /\ reqs[r].sent = 1
        /\ pc = "waiting" => view = NoView
        /\ (pc = "rendered") =
              (\A r \in Dispatched : reqs[r].st = "done" /\ ~reqs[r].out.thrown)
        /\ pc = "rendered" =>
              /\ view.kind = "list"
              /\ view.agents =
                    Page(ExpectedIds(HomeParse(params).filters, store),
                         HomeParse(params).pageSize,
                         (HomeParse(params).page - 1) * HomeParse(params).pageSize)
              /\ view.totalAgents =
                    Len(ExpectedIds(HomeParse(params).filters, store))
        /\ (\E r \in Dispatched : reqs[r].out.thrown) =>
              /\ pc = "failed" /\ view.kind = "error"
              /\ view.agents = <<>> /\ view.totalAgents = 0 /\ view.totalPages = 0

C10_Witness ==
    /\ route = "list" /\ pc = "rendered"
    /\ order = <<"count", "stats", "list">>
    /\ view.agents # <<>>

\* The arguments of the agents field as the list request carries them, the
\* where argument left aside.
IssuedArgs(query) == ParseDocument(HeadOnly(query)).fields[1].args

AllowedSizes == {12, 24, 48, 99}

\* C11: whatever the perPage parameter is, the page size the list request
\* uses (its first argument, and the factor of its offset) is one of 12, 24,
\* 48, 99; it is the parameter's size when the parameter is one of these
\* numbers, and 24 when the parameter is absent or anything else.
C11_PageSizeAllowed ==
    (route = "list" /\ reqs["list"].st # "none") =>
        LET a == IssuedArgs(reqs["list"].query)
            first == ParseInt(Field(a, "first").s)
        IN  /\ Field(a, "first").k = "int"
            /\ first \in AllowedSizes
            /\ \A size \in AllowedSizes :
                  params.perPage = NatToString(size) => first = size
            /\ params.perPage \notin {NatToString(size) : size \in AllowedSizes} =>
                  first = 24
            /\ HomeParse(params).page # NaN =>
                  ParseInt(Field(a, "skip").s) = (HomeParse(params).page - 1) * first

\* C12: whatever the page parameter is, the offset the list request carries
\* is (p - 1) * pageSize for a page p >= 1: an integer, not negative, a
\* multiple of the page size; an absent parameter gives p = 1.
C12_OffsetNotNegative ==
    (route = "list" /\ reqs["list"].st # "none") =>
        LET a == IssuedArgs(reqs["list"].query)
            first == ParseInt(Field(a, "first").s)
            skip == ParseInt(Field(a, "skip").s)
        IN  /\ Field(a, "skip").k = "int"
            /\ skip >= 0
            /\ skip % first = 0
            /\ params.page = <<>> => skip = 0

(***************************************************************************)
(* One call of buildUrl (and a second one on the state re-derived from the *)
(* URL), or one call of PageSizeSelect.handleChange                        *)
(***************************************************************************)
UrlSearchTexts == {<<>>, <<"a">>, <<"1">>, <<DQ>>, <<"+">>, <<"a", " ", "1">>}

\* The currentParams Home derives from the search params of a request.
CurrentStates ==
    {HomeParse(p).currentParams :
        p \in [search : UrlSearchTexts, page : PageParams, perPage : PerPageParams,
               hasReviews : FlagParams, hasEndpoint : FlagParams]}

\* The updates of the page's links, for any page number, and others.
UpdateSets ==
    {[page |-> v] : v \in {<<"1">>, <<"2">>, <<"3">>, <<"0">>, <<"NaN">>}}
    \cup {[hasReviews |-> f, page |-> <<"1">>] : f \in FlagParams}
    \cup {[hasEndpoint |-> f, page |-> <<"1">>] : f \in FlagParams}
    \cup {[perPage |-> NumberToString(size), page |-> <<"1">>] : size \in PageSizeSet}
    \cup {[search |-> t] : t \in UrlSearchTexts}
    \cup {[perPage |-> <<"7">>]}

PagesIdle ==
    /\ route = "none"
    /\ params = NoParams
    /\ pathId = <<>>
    /\ store = [n |-> 0, fb |-> <<>>]
    /\ pc = "idle"
    /\ reqs = [r \in ReqNames |-> NoRequest]
    /\ order = <<>>
    /\ view = NoView
    /\ trail = <<>>
    /\ linked = <<>>

InitUrl ==
    /\ qin \in [fn : {"buildUrl"}, current : CurrentStates,
                updates : UpdateSets, newSize : {DEFAULT_PAGE_SIZE}]
           \cup [fn : {"handleChange"}, current : CurrentStates,
                 updates : {[page |-> <<"1">>]}, newSize : PageSizeSet]
    /\ qout = <<>>
    /\ qpc = "input"
    /\ PagesIdle

BuildUrlCall ==
    /\ qpc = "input" /\ qin.fn = "buildUrl"
    /\ qout' = <<buildUrl(qin.current, qin.updates)>>
    /\ qpc' = "built"
    /\ UNCHANGED <<qin, pageVars>>

\* Home serves the URL just built and the same update is applied to the
\* currentParams it derives.
BuildUrlAgain ==
    /\ qpc = "built" /\ qin.fn = "buildUrl"
    /\ qout' = Append(qout, buildUrl(HomeParse(ParamsOfUrl(qout[1])).currentParams,
                                     qin.updates))
    /\ qpc' = "rebuilt"
    /\ UNCHANGED <<qin, pageVars>>

HandleChangeCall ==
    /\ qpc = "input" /\ qin.fn = "handleChange"
    /\ qout' = <<handleChange(qin.current, qin.newSize)>>
    /\ qpc' = "built"
    /\ UNCHANGED <<qin, pageVars>>

NextUrl == BuildUrlCall \/ BuildUrlAgain \/ HandleChangeCall

SpecUrl == InitUrl /\ [][NextUrl]_vars

(***************************************************************************)
(* Claims about the URLs                                                   *)
(***************************************************************************)
\* The value buildUrl sees for key k.
Merged(k) == IF k \in DOMAIN qin.updates THEN qin.updates[k] ELSE qin.current[k]

HasKey(url, k) == \E i \in 1..Len(url) : url[i].key = k

\* C13: the URL buildUrl produces has no page for a merged page "1", no
\* perPage for a merged perPage "24", no search for an empty or absent
\* search and no hasReviews / hasEndpoint for an absent one; the current
\* state {page: "2", perPage: "24"} with the update {page: "1"} gives "/".
C13_OmitsDefaults ==
    (qin.fn = "buildUrl" /\ qpc \in {"built", "rebuilt"}) =>
        /\ Merged("page") = <<"1">> => ~HasKey(qout[1], "page")
        /\ Merged("perPage") = <<"2", "4">> => ~HasKey(qout[1], "perPage")
        /\ \A k \in {"search", "hasReviews", "hasEndpoint"} :
              Merged(k) = <<>> => ~HasKey(qout[1], k)
        /\ (/\ qin.current = [NoParams EXCEPT !.page = <<"2">>, !.perPage = <<"2", "4">>]
            /\ qin.updates = [page |-> <<"1">>]) => qout[1] = <<>>

C13_Witness ==
    /\ qin.fn = "buildUrl" /\ qpc = "built"
    /\ qin.current = [NoParams EXCEPT !.page = <<"2">>, !.perPage = <<"2", "4">>]
    /\ qin.updates = [page |-> <<"1">>]
    /\ qout = <<<<>>>>

\* C14: building a URL, re-deriving the state from it as the list page does
\* and applying the same update again gives the same URL.
C14_Idempotent ==
    (qin.fn = "buildUrl" /\ qpc = "rebuilt") => qout[2] = qout[1]

C14_Witness ==
    /\ qin.fn = "buildUrl" /\ qpc = "rebuilt"
    /\ qin.current.search = <<"a", " ", "1">>
    /\ HasKey(qout[1], "search") /\ HasKey(qout[1], "page")
    /\ HomeParse(ParamsOfUrl(qout[1])).currentParams # qin.current

\* C17: the URL buildUrl produces has every key whose merged value is not
\* its default, with that value: a non-empty search whatever its text, an
\* active flag, a page size other than 24, a page other than "1".
C17_KeepsNonDefaults ==
    (qin.fn = "buildUrl" /\ qpc \in {"built", "rebuilt"}) =>
        \A k \in ParamKeySet :
            (/\ Merged(k) # <<>>
             /\ ~(k = "page" /\ Merged(k) = <<"1">>)
             /\ ~(k = "perPage" /\ Merged(k) = <<"2", "4">>)) =>
                /\ HasKey(qout[1], k)
                /\ ParamsOfUrl(qout[1])[k] = Merged(k)

\* C19: the URL handleChange(newSize) pushes is the one buildUrl gives for
\* the update {perPage: String(newSize), page: "1"}.
C19_SelectorAgrees ==
    (qin.fn = "handleChange" /\ qpc = "built") =>
        qout[1] = buildUrl(qin.current,
                           [perPage |-> NumberToString(qin.newSize), page |-> <<"1">>])

(***************************************************************************)
(* isReadableText and the tags of FeedbackCard                             *)
(*                                                                         *)
(* A tag is [isNull, text]: text is the sequence of the char codes of the  *)
(* string (charCodeAt), <<>> for "" and for null.                          *)
(***************************************************************************)
MaxTagLen == 4
LongTagLen == 10

NullTag == [isNull |-> TRUE, text |-> <<>>]

\* str.split("").filter(c => c.charCodeAt(0) < 32 || c.charCodeAt(0) > 126).length
NonReadable(text) == Len(SelectSeq(text, LAMBDA c : c < 32 \/ c > 126))

\* isReadableText with <= in place of <.
isReadableText_AtMost(tag) ==
    IF tag.isNull \/ tag.text = <<>> THEN FALSE
    ELSE 10 * NonReadable(tag.text) <= 3 * Len(tag.text)

\* nonReadable / str.length < 0.3: the quotient of two small integers is
\* below the double 0.3 exactly when 10 * nonReadable < 3 * str.length (the
\* quotient 3/10 itself rounds to the double 0.3, which is not below it).
isReadableText(tag) ==
    IF tag.isNull \/ tag.text = <<>> THEN FALSE
    ELSE 10 * NonReadable(tag.text) < 3 * Len(tag.text)

\* FeedbackCard: isReadableText(feedback.tag1) ? feedback.tag1 : null
FeedbackCardTag(tag) == IF isReadableText(tag) THEN tag ELSE NullTag

\* Codes on both sides of the two limits, 32 and 126.
TagCodes == {31, 32, 126, 127}

\* The texts of the long length made of the control byte 7 and the letter A.
LongTexts ==
    {[i \in 1..LongTagLen |-> IF i \in S THEN 7 ELSE 65] : S \in SUBSET (1..LongTagLen)}

TagInputs ==
    {NullTag}
    \cup [isNull : {FALSE}, text : StringsUpTo(TagCodes, MaxTagLen) \cup LongTexts]

InitTag ==
    /\ qin \in [fn : {"isReadableText"}, tag : TagInputs]
    /\ qout = <<>>
    /\ qpc = "input"
    /\ PagesIdle

IsReadableTextCall ==
    /\ qpc = "input" /\ qin.fn = "isReadableText"
    /\ qout' = [readable |-> isReadableText(qin.tag), shown |-> FeedbackCardTag(qin.tag)]
    /\ qpc' = "built"
    /\ UNCHANGED <<qin, pageVars>>

NextTag == IsReadableTextCall

SpecTag == InitTag /\ [][NextTag]_vars

\* The number of characters of the text with a code below 32 or above 126.
Unprintable(text) == Cardinality({i \in 1..Len(text) : text[i] < 32 \/ text[i] > 126})

\* C15: isReadableText(s) is true exactly when s is not null, not empty and
\* less than 30% of its characters have a code below 32 or above 126, and
\* FeedbackCard shows the tag exactly then: with 40% it is suppressed, with
\* 10% shown, with exactly 30% suppressed.
C15_ReadableBelowThirty ==
    qpc = "built" =>
        LET text == qin.tag.text
            bad == Unprintable(text)
        IN  /\ qout.readable =
                  (~qin.tag.isNull /\ Len(text) > 0 /\ 10 * bad < 3 * Len(text))
            /\ qout.shown = IF qout.readable THEN qin.tag ELSE NullTag
            /\ (Len(text) > 0 /\ 10 * bad = 4 * Len(text)) => qout.shown = NullTag
            /\ (Len(text) > 0 /\ 10 * bad = 1 * Len(text)) => qout.shown = qin.tag
            /\ (Len(text) > 0 /\ 10 * bad = 3 * Len(text)) => qout.shown = NullTag

C15_Witness ==
    /\ qpc = "built"
    /\ Len(qin.tag.text) = 10 /\ Unprintable(qin.tag.text) = 3
    /\ ~qout.readable /\ qout.shown = NullTag

(***************************************************************************)
(* Claims about the navigation                                             *)
(***************************************************************************)
\* C16: for every agent card of the list, the id the detail page looks up is
\* the id of the card: the link carries the id encoded, the detail page
\* decodes the path segment without failing and sends the decoded id, not
\* the segment, as the key of its query, and the agent it shows is that one.
C16_IdRoundTrip ==
    (route = "detail" /\ linked # <<>>) =>
        /\ DecodeURIComponent(EncodeURIComponent(linked)).ok
        /\ DecodeURIComponent(EncodeURIComponent(linked)).text = linked
        /\ pc # "start" =>
              /\ reqs["detail"].st # "none"
              /\ LET d == ParseDocument(reqs["detail"].query) IN
                 /\ d.ok /\ FieldNames(d.fields) = <<"agent">>
                 /\ d.fields[1].args = Obj(<<"id">>, <<Scalar("str", linked)>>)
        /\ pc = "rendered" => view.agents = <<linked>>
        /\ pc # "notfound"

C16_Witness ==
    /\ route = "detail" /\ pc = "rendered"
    /\ linked # <<>> /\ pathId # linked
    /\ view.agents = <<linked>>

\* The number of pages of the list the search params p select from store st.
PagesOf(p, st) ==
    (Len(ExpectedIds(HomeParse(p).filters, st)) + HomeParse(p).pageSize - 1)
        \div HomeParse(p).pageSize

\* The page of p is within 1..max(1, totalPages) and its size is allowed.
InRange(p, st) ==
    /\ HomeParse(p).pageSize \in AllowedSizes
    /\ HomeParse(p).page # NaN
    /\ 1 <= HomeParse(p).page
    /\ HomeParse(p).page <= (IF PagesOf(p, st) > 1 THEN PagesOf(p, st) ELSE 1)

\* A step from a rendered list to the list the visitor asked for by a control.
ControlStep ==
    /\ route = "list" /\ pc = "rendered"
    /\ route' = "list" /\ pc' = "start"

C18_PagesOffered ==
    (route = "list" /\ pc = "rendered") =>
        /\ view.showPrev => HomeParse(params).page > 1
        /\ view.showNext => HomeParse(params).page < view.totalPages

C18_Step ==
    (ControlStep /\ InRange(params, store)) =>
        /\ InRange(params', store)
        /\ (\/ HomeParse(params').filters # HomeParse(params).filters
            \/ HomeParse(params').pageSize # HomeParse(params).pageSize) =>
              HomeParse(params').page = 1

\* C18: from a list whose page is within 1..totalPages, every control of the
\* page leads to a list with a page size of 12, 24, 48 or 99 and a page
\* within 1..max(1, totalPages); Previous is offered only when page > 1 and
\* Next only when page < totalPages; a control that changes the filters or
\* the page size leads to page 1.
C18_ControlsStayInRange == []C18_PagesOffered /\ [][C18_Step]_vars

====
